---------------------------- MODULE Spec2Model ----------------------------
(***************************************************************************)
(* Model of Sources/FastClusterWrapper/FastClusterWrapper.cpp: the C entry *)
(* point fastcluster_compute_centroid_linkage, the CentroidDissimilarity   *)
(* object it hands to the linkage engine, and the dendrogram encoder       *)
(* (LinkageOutput, generateSciPyDendrogram).                               *)
(*                                                                         *)
(* t_float is modelled as the integers plus NaN; the rounding of a         *)
(* division and of a square root is modelled by rounding down.  t_index is *)
(* a signed integer of IndexBits bits, size_t an unsigned integer of twice *)
(* that width (a scale model of 32 and 64 bits).                           *)
(***************************************************************************)
EXTENDS Integers, Sequences, FiniteSets, TLC

VARIABLES
    pc,        \* position of the call in the function body
    args,      \* the five arguments of fastcluster_compute_centroid_linkage
    data,      \* the input matrix data[0 .. pointCount*dimension-1]
    out,       \* the caller's buffer dendrogramOut[0 .. dendrogramLength-1]
    writes,    \* history: the indices of dendrogramOut written, in order
    status,    \* the returned fastcluster_wrapper_status ("none" before return)
    failure,   \* history: the kind of exception raised in the try block
    dist,      \* the CentroidDissimilarity object
    result,    \* cluster_result Z2: the merge events appended by the engine
    emitted,   \* history: the events in the order the engine emitted them
    active,    \* engine: the nodes not yet consumed as a parent
    nodes,     \* encoder: the union_find structure (used when not sorted)
    entry,     \* encoder: the index of the event the loop stands at
    cursor,    \* encoder: LinkageOutput::cursor, as an offset into dendrogramOut
    alloc      \* the element counts handed to the two std::vector constructors

vars == <<pc, args, data, out, writes, status, failure, dist, result, emitted,
          active, nodes, entry, cursor, alloc>>

---------------------------------------------------------------------------
(* Bounds of the exploration. *)

\* largest pointCount for which the whole pipeline is explored
MaxN == 4
\* largest dimension for which the whole pipeline is explored
MaxD == 2
\* input matrices are generated from seeds 0 .. MaxSeed
MaxSeed == 1
\* width of t_index in bits (scale model of int_fast32_t)
IndexBits == 7

---------------------------------------------------------------------------
(* t_index and size_t arithmetic. *)

IndexModulus == 2 ^ IndexBits

MAX_INDEX == 2 ^ (IndexBits - 1) - 1

SizeModulus == 2 ^ (2 * IndexBits)

\* a value reduced to the two's complement range of t_index
IndexWrap(x) == ((x + MAX_INDEX + 1) % IndexModulus) - (MAX_INDEX + 1)

\* static_cast<size_t>(x) of a signed value
ToSize(x) == x % SizeModulus

\* A t_index expression whose exact value is x.  Signed overflow is undefined:
\* the build either wraps at the index width or evaluates in a wider register.
IndexExpr(x, wide) == IF wide THEN x ELSE IndexWrap(x)

---------------------------------------------------------------------------
(* t_float. *)

FNaN == [nan |-> TRUE, v |-> 0]

Fin(x) == [nan |-> FALSE, v |-> x]

\* fc_isnan(X) ((X) != (X))
fc_isnan(x) == x.nan

FAdd(a, b) == IF a.nan \/ b.nan THEN FNaN ELSE Fin(a.v + b.v)

FSub(a, b) == IF a.nan \/ b.nan THEN FNaN ELSE Fin(a.v - b.v)

FMul(a, b) == IF a.nan \/ b.nan THEN FNaN ELSE Fin(a.v * b.v)

\* 0/0 is NaN; x/0 for x # 0 is an infinity, which the model does not carry
FDiv(a, b) == IF a.nan \/ b.nan \/ b.v = 0 THEN FNaN ELSE Fin(a.v \div b.v)

RECURSIVE ISqrt(_, _)
ISqrt(x, r) == IF (r + 1) * (r + 1) > x THEN r ELSE ISqrt(x, r + 1)

\* std::sqrt: NaN for NaN and for a negative argument
FSqrt(a) == IF a.nan \/ a.v < 0 THEN FNaN ELSE Fin(ISqrt(a.v, 0))

\* operator< of two t_float: false when either side is NaN
FLess(a, b) == ~a.nan /\ ~b.nan /\ a.v < b.v

---------------------------------------------------------------------------
(* Memory: a buffer is a sequence, element i of the buffer at position i+1. *)

InRange(buf, i) == (i + 1) \in DOMAIN buf

Load(buf, i) == buf[i + 1]

Store(buf, i, x) == [buf EXCEPT ![i + 1] = x]

\* a buffer of n elements, each x
Filled(n, x) == [i \in 1 .. n |-> x]

---------------------------------------------------------------------------
(* struct CentroidDissimilarity. *)

NoDissimilarity ==
    [data |-> <<>>, dimension |-> 0, count |-> 0,
     centroidStorage |-> <<>>, members |-> <<>>]

\* element count of centroidStorage
CentroidStorageSize(sampleCount, dim, wide) ==
    IF sampleCount > 1
    THEN ToSize(IndexExpr((sampleCount - 1) * dim, wide))
    ELSE 0

\* element count of members
MembersSize(sampleCount, wide) ==
    IF sampleCount > 0
    THEN ToSize(IndexExpr(2 * sampleCount - 1, wide))
    ELSE 0

\* members after the constructor's loop: 1 for i < count, 0 elsewhere
InitialMembers(size, count) ==
    [i \in 1 .. size |-> IF i - 1 < count THEN 1 ELSE 0]

\* the constructor
CentroidDissimilarity(input, sampleCount, dim, wide) ==
    [data            |-> input,
     dimension       |-> dim,
     count           |-> sampleCount,
     centroidStorage |-> Filled(CentroidStorageSize(sampleCount, dim, wide), Fin(0)),
     members         |-> InitialMembers(MembersSize(sampleCount, wide), sampleCount)]

\* a pointer is a buffer name and an element offset
basePointer(d, index) == [buf |-> "data", off |-> index * d.dimension]

centroidPointer(d, index) ==
    [buf |-> "centroid", off |-> (index - d.count) * d.dimension]

extendedPointer(d, index) ==
    IF index < d.count THEN basePointer(d, index) ELSE centroidPointer(d, index)

Buffer(d, p) == IF p.buf = "data" THEN d.data ELSE d.centroidStorage

\* whether p[0 .. dimension-1] lies inside the buffer p points into
PointerInside(d, p) ==
    \A k \in 0 .. d.dimension - 1 : InRange(Buffer(d, p), p.off + k)

Deref(d, p, k) == Load(Buffer(d, p), p.off + k)

\* the accumulation loop of sqeuclidean and sqeuclidean_extended
RECURSIVE SquaredSum(_, _, _, _, _)
SquaredSum(d, pi, pj, k, sum) ==
    IF k >= d.dimension
    THEN sum
    ELSE LET diff == FSub(Deref(d, pi, k), Deref(d, pj, k))
         IN  SquaredSum(d, pi, pj, k + 1, FAdd(sum, FMul(diff, diff)))

\* sqeuclidean with its NaN check left out
sqeuclidean_unchecked(d, checkNaN, i, j) ==
    [threw |-> FALSE,
     val   |-> SquaredSum(d, basePointer(d, i), basePointer(d, j), 0, Fin(0))]

\* sqeuclidean<checkNaN>(i, j): the value, or a thrown nan_error
sqeuclidean(d, checkNaN, i, j) ==
    LET sum == SquaredSum(d, basePointer(d, i), basePointer(d, j), 0, Fin(0))
    IN  [threw |-> checkNaN /\ fc_isnan(sum), val |-> sum]

sqeuclidean_extended(d, i, j) ==
    LET sum == SquaredSum(d, extendedPointer(d, i), extendedPointer(d, j), 0, Fin(0))
    IN  [threw |-> fc_isnan(sum), val |-> sum]

\* the centroid loop of merge: pn[k] = (pi[k]*mi + pj[k]*mj) / denom
RECURSIVE MergeLoop(_, _, _, _, _, _, _)
MergeLoop(d, pi, pj, pn, mi, mj, k) ==
    IF k >= d.dimension
    THEN d
    ELSE LET x == FDiv(FAdd(FMul(Deref(d, pi, k), mi), FMul(Deref(d, pj, k), mj)),
                       FAdd(mi, mj))
             e == [d EXCEPT !.centroidStorage = Store(@, pn.off + k, x)]
         IN  MergeLoop(e, pi, pj, pn, mi, mj, k + 1)

\* SetMembers storing the count of the first parent alone
SetMembersOfFirst(d, i, j, newNode) ==
    [d EXCEPT !.members = Store(@, newNode, Load(d.members, i))]

\* members[newNode] = members[i] + members[j], a t_index addition
SetMembers(d, i, j, newNode) ==
    [d EXCEPT !.members =
        Store(@, newNode, IndexWrap(Load(d.members, i) + Load(d.members, j)))]

merge(d, i, j, newNode) ==
    LET e == MergeLoop(d, extendedPointer(d, i), extendedPointer(d, j),
                       centroidPointer(d, newNode),
                       Fin(Load(d.members, i)), Fin(Load(d.members, j)), 0)
    IN  SetMembers(e, i, j, newNode)

\* the centroid loop of merge_weighted: pn[k] = 0.5 * (pi[k] + pj[k])
RECURSIVE MergeWeightedLoop(_, _, _, _, _)
MergeWeightedLoop(d, pi, pj, pn, k) ==
    IF k >= d.dimension
    THEN d
    ELSE LET x == FDiv(FAdd(Deref(d, pi, k), Deref(d, pj, k)), Fin(2))
             e == [d EXCEPT !.centroidStorage = Store(@, pn.off + k, x)]
         IN  MergeWeightedLoop(e, pi, pj, pn, k + 1)

merge_weighted(d, i, j, newNode) ==
    LET e == MergeWeightedLoop(d, extendedPointer(d, i), extendedPointer(d, j),
                               centroidPointer(d, newNode), 0)
    IN  SetMembers(e, i, j, newNode)

\* whether a merge into newNode from i and j stays inside the object's buffers
MergeInside(d, i, j, newNode) ==
    /\ PointerInside(d, extendedPointer(d, i))
    /\ PointerInside(d, extendedPointer(d, j))
    /\ PointerInside(d, centroidPointer(d, newNode))
    /\ InRange(d.members, i) /\ InRange(d.members, j) /\ InRange(d.members, newNode)

---------------------------------------------------------------------------
(* fastcluster_wrapper_status. *)

FASTCLUSTER_WRAPPER_SUCCESS == 0

FASTCLUSTER_WRAPPER_INVALID_ARGUMENT == 1

FASTCLUSTER_WRAPPER_INDEX_OVERFLOW == 2

FASTCLUSTER_WRAPPER_OUTPUT_TOO_SMALL == 3

FASTCLUSTER_WRAPPER_ALLOCATION_FAILURE == 4

FASTCLUSTER_WRAPPER_RUNTIME_ERROR == 5

FASTCLUSTER_WRAPPER_UNKNOWN_ERROR == 255

StatusCodes ==
    {FASTCLUSTER_WRAPPER_SUCCESS, FASTCLUSTER_WRAPPER_INVALID_ARGUMENT,
     FASTCLUSTER_WRAPPER_INDEX_OVERFLOW, FASTCLUSTER_WRAPPER_OUTPUT_TOO_SMALL,
     FASTCLUSTER_WRAPPER_ALLOCATION_FAILURE, FASTCLUSTER_WRAPPER_RUNTIME_ERROR,
     FASTCLUSTER_WRAPPER_UNKNOWN_ERROR}

\* no status: the call has not returned
NoStatus == 0 - 1

\* the checks pass and control enters the try block
EnterTry == 0 - 2

\* an exception leaves the function
Escaped == 0 - 3

---------------------------------------------------------------------------
(* fastcluster_compute_centroid_linkage: the checks before the try block. *)

\* RequiredLength counting three columns a row
RequiredLengthThreeColumns(pointCount) ==
    IF pointCount > 1 THEN ToSize((pointCount - 1) * 3) ELSE 0

\* requiredLength, a size_t expression
RequiredLength(pointCount) ==
    IF pointCount > 1 THEN ToSize((pointCount - 1) * 4) ELSE 0

\* BoundaryStatus with the index check applied to pointCount alone
BoundaryStatusPointCountOnly(a) ==
    IF a.dataNull \/ a.outNull THEN FASTCLUSTER_WRAPPER_INVALID_ARGUMENT
    ELSE IF a.pointCount = 0 THEN FASTCLUSTER_WRAPPER_SUCCESS
    ELSE IF a.dimension = 0 THEN FASTCLUSTER_WRAPPER_INVALID_ARGUMENT
    ELSE IF a.pointCount > MAX_INDEX THEN FASTCLUSTER_WRAPPER_INDEX_OVERFLOW
    ELSE IF a.dendrogramLength < RequiredLength(a.pointCount)
         THEN FASTCLUSTER_WRAPPER_OUTPUT_TOO_SMALL
    ELSE IF a.pointCount = 1 THEN FASTCLUSTER_WRAPPER_SUCCESS
    ELSE EnterTry

\* the status returned by the checks, or EnterTry
BoundaryStatus(a) ==
    IF a.dataNull \/ a.outNull THEN FASTCLUSTER_WRAPPER_INVALID_ARGUMENT
    ELSE IF a.pointCount = 0 THEN FASTCLUSTER_WRAPPER_SUCCESS
    ELSE IF a.dimension = 0 THEN FASTCLUSTER_WRAPPER_INVALID_ARGUMENT
    ELSE IF a.pointCount > MAX_INDEX \/ a.dimension > MAX_INDEX
         THEN FASTCLUSTER_WRAPPER_INDEX_OVERFLOW
    ELSE IF a.dendrogramLength < RequiredLength(a.pointCount)
         THEN FASTCLUSTER_WRAPPER_OUTPUT_TOO_SMALL
    ELSE IF a.pointCount = 1 THEN FASTCLUSTER_WRAPPER_SUCCESS
    ELSE EnterTry

\* TryStatus with the std::exception clause ahead of the std::bad_alloc clause
TryStatusExceptionFirst(outcome) ==
    CASE outcome = "ok"            -> FASTCLUSTER_WRAPPER_SUCCESS
      [] outcome = "bad_alloc"     -> FASTCLUSTER_WRAPPER_RUNTIME_ERROR
      [] outcome = "nan_error"     -> FASTCLUSTER_WRAPPER_RUNTIME_ERROR
      [] outcome = "std_exception" -> FASTCLUSTER_WRAPPER_RUNTIME_ERROR
      [] OTHER                     -> FASTCLUSTER_WRAPPER_UNKNOWN_ERROR

\* TryStatus with the return of the try block missing, so that a completed
\* pipeline falls through to the last return of the function
TryStatusFallsThrough(outcome) ==
    CASE outcome = "ok"            -> FASTCLUSTER_WRAPPER_UNKNOWN_ERROR
      [] outcome = "bad_alloc"     -> FASTCLUSTER_WRAPPER_ALLOCATION_FAILURE
      [] outcome = "nan_error"     -> FASTCLUSTER_WRAPPER_RUNTIME_ERROR
      [] outcome = "std_exception" -> FASTCLUSTER_WRAPPER_RUNTIME_ERROR
      [] OTHER                     -> FASTCLUSTER_WRAPPER_UNKNOWN_ERROR

\* the status of the try block: its return statement and its catch clauses
TryStatus(outcome) ==
    CASE outcome = "ok"            -> FASTCLUSTER_WRAPPER_SUCCESS
      [] outcome = "bad_alloc"     -> FASTCLUSTER_WRAPPER_ALLOCATION_FAILURE
      [] outcome = "nan_error"     -> FASTCLUSTER_WRAPPER_RUNTIME_ERROR
      [] outcome = "std_exception" -> FASTCLUSTER_WRAPPER_RUNTIME_ERROR
      [] OTHER                     -> FASTCLUSTER_WRAPPER_UNKNOWN_ERROR

---------------------------------------------------------------------------
(* The calls explored. *)

\* the caller's content of dendrogramOut before the call
Poison == Fin(0 - 1)

PointCounts == (0 .. MaxN) \cup {MAX_INDEX, MAX_INDEX + 1}

Dimensions == (0 .. MaxD) \cup {MAX_INDEX, MAX_INDEX + 1}

Lengths(pointCount) ==
    LET req == IF pointCount > 1 THEN (pointCount - 1) * 4 ELSE 0
    IN  {0, req - 1, req, req + 1} \cap Nat

\* the call reaches the linkage pipeline
ReachesPipeline(a) ==
    /\ ~a.dataNull /\ ~a.outNull
    /\ a.pointCount >= 2 /\ a.pointCount <= MAX_INDEX
    /\ a.dimension >= 1 /\ a.dimension <= MAX_INDEX
    /\ a.dendrogramLength >= (a.pointCount - 1) * 4

\* the pipeline is explored for matrices of at most MaxN by MaxD
Calls ==
    { a \in [dataNull : BOOLEAN, outNull : BOOLEAN, pointCount : PointCounts,
             dimension : Dimensions,
             dendrogramLength : 0 .. 4 * MAX_INDEX + 1] :
        /\ a.dendrogramLength \in Lengths(a.pointCount)
        /\ ReachesPipeline(a) => (a.pointCount <= MaxN /\ a.dimension <= MaxD) }

\* element idx of the matrix generated from a seed
Generated(seed, idx) == Fin((seed * idx * idx) % 5)

\* the matrices of n by d elements: generated, with at most one NaN injected
Matrices(n, d) ==
    { [p \in 1 .. n * d |-> IF p - 1 = nanAt THEN FNaN ELSE Generated(seed, p - 1)] :
        seed \in 0 .. MaxSeed, nanAt \in (0 - 1) .. (n * d - 1) }

\* a matrix is supplied with every call whose shape the pipeline could take
Inputs(a) ==
    IF /\ ~a.dataNull /\ ~a.outNull
       /\ a.pointCount \in 2 .. MaxN /\ a.dimension \in 1 .. MaxD
    THEN Matrices(a.pointCount, a.dimension)
    ELSE {<<>>}

---------------------------------------------------------------------------
(* The dendrogram encoder. *)

\* class union_find: parent[0 .. 2*size-2], all zero, and nextparent
union_find(size) ==
    [parent     |-> Filled(IF size > 0 THEN 2 * size - 1 ELSE 0, 0),
     nextparent |-> size]

RECURSIVE Find(_, _)
Find(uf, idx) ==
    IF InRange(uf.parent, idx) /\ Load(uf.parent, idx) # 0
    THEN Find(uf, Load(uf.parent, idx))
    ELSE idx

Union(uf, node1, node2) ==
    [parent     |-> Store(Store(uf.parent, node1, uf.nextparent), node2, uf.nextparent),
     nextparent |-> uf.nextparent + 1]

\* x inserted into a sorted sequence behind every element not larger than x
RECURSIVE InsertSorted(_, _)
InsertSorted(s, x) ==
    IF s = <<>> \/ ~FLess(x.dist, s[Len(s)].dist)
    THEN Append(s, x)
    ELSE Append(InsertSorted(SubSeq(s, 1, Len(s) - 1), x), s[Len(s)])

\* std::stable_sort of the events by dist
RECURSIVE StableSort(_)
StableSort(s) ==
    IF s = <<>> THEN <<>>
    ELSE InsertSorted(StableSort(SubSeq(s, 1, Len(s) - 1)), s[Len(s)])

\* the call instantiated as generateSciPyDendrogram<false>
EncoderUnsorted == FALSE

\* the template argument of the call generateSciPyDendrogram<true>
EncoderSorted == TRUE

\* LinkageOutput::append without the comparison of the two nodes
LinkageOutputAppendUnordered(node1, node2, distance, size) ==
    <<Fin(node1), Fin(node2), distance, size>>

\* LinkageOutput::append: the four values in the order they are stored
LinkageOutputAppend(node1, node2, distance, size) ==
    IF node1 < node2
    THEN <<Fin(node1), Fin(node2), distance, size>>
    ELSE <<Fin(node2), Fin(node1), distance, size>>

\* the element of dendrogramOut that Z_(r, c) names
ZIndex(r, c) == r * 4 + c

\* the size operand of one side: 1 for a leaf, else Z_(node - N, 3)
SideSize(Z, node, N) ==
    IF node < N THEN Fin(1) ELSE Load(Z, ZIndex(node - N, 3))

\* whether the Z_ read of a side stays inside dendrogramOut
SideInside(Z, node, N) == node < N \/ InRange(Z, ZIndex(node - N, 3))

\* the buffer after the values vals are stored from offset at
RECURSIVE StoreAll(_, _, _)
StoreAll(Z, at, vals) ==
    IF vals = <<>> THEN Z
    ELSE StoreAll(IF InRange(Z, at) THEN Store(Z, at, Head(vals)) ELSE Z,
                  at + 1, Tail(vals))

---------------------------------------------------------------------------
(* One call of fastcluster_compute_centroid_linkage. *)

NoUnionFind == [parent |-> <<>>, nextparent |-> 0]

NoAlloc == [centroid |-> 0, members |-> 0]

Init ==
    /\ pc = "idle"
    /\ args = [dataNull |-> FALSE, outNull |-> FALSE, pointCount |-> 0,
               dimension |-> 0, dendrogramLength |-> 0]
    /\ data = <<>>
    /\ out = <<>>
    /\ writes = <<>>
    /\ status = NoStatus
    /\ failure = "none"
    /\ dist = NoDissimilarity
    /\ result = <<>>
    /\ emitted = <<>>
    /\ active = {}
    /\ nodes = NoUnionFind
    /\ entry = 0
    /\ cursor = 0
    /\ alloc = NoAlloc

\* the call is made and the checks before the try block run
Call(a, m) ==
    /\ pc = "idle"
    /\ args' = a
    /\ data' = m
    /\ out' = IF a.outNull THEN <<>> ELSE Filled(a.dendrogramLength, Poison)
    /\ LET st == BoundaryStatus(a)
       IN  IF st = EnterTry
           THEN pc' = "construct" /\ status' = NoStatus
           ELSE pc' = "done" /\ status' = st
    /\ UNCHANGED <<writes, failure, dist, result, emitted, active, nodes,
                   entry, cursor, alloc>>

\* an exception of the given kind is thrown in the try block: the stack is
\* unwound (dist and result are destroyed) and a catch clause returns
Raise(kind) ==
    /\ failure' = kind
    /\ status' = TryStatus(kind)
    /\ pc' = IF TryStatus(kind) = Escaped THEN "escaped" ELSE "done"
    /\ dist' = NoDissimilarity
    /\ result' = <<>>
    /\ emitted' = <<>>
    /\ active' = {}
    /\ nodes' = NoUnionFind
    /\ entry' = 0
    /\ cursor' = 0
    /\ UNCHANGED <<args, data, out, writes>>

\* CentroidDissimilarity dist(data, N, dim); cluster_result result(N - 1);
Construct(wide) ==
    /\ pc = "construct"
    /\ LET N   == IndexWrap(args.pointCount)
           dim == IndexWrap(args.dimension)
       IN  /\ alloc' = [centroid |-> CentroidStorageSize(N, dim, wide),
                        members  |-> MembersSize(N, wide)]
           /\ dist' = CentroidDissimilarity(data, N, dim, wide)
           /\ active' = 0 .. N - 1
    /\ result' = <<>>
    /\ emitted' = <<>>
    /\ pc' = "seed"
    /\ UNCHANGED <<args, data, out, writes, status, failure, nodes, entry, cursor>>

\* one of the allocations of the two constructors throws std::bad_alloc
ConstructFails ==
    /\ pc = "construct"
    /\ Raise("bad_alloc")
    /\ UNCHANGED alloc

\* the engine seeds its nearest-neighbour table: sqeuclidean<true>(i, j) for
\* every pair of leaves j < i
EngineSeed ==
    /\ pc = "seed"
    /\ IF \E i \in 1 .. dist.count - 1 : \E j \in 0 .. i - 1 :
              sqeuclidean(dist, TRUE, i, j).threw
       THEN Raise("nan_error")
       ELSE /\ pc' = "merge"
            /\ UNCHANGED <<args, data, out, writes, status, failure, dist,
                           result, emitted, active, nodes, entry, cursor>>
    /\ UNCHANGED alloc

\* the engine merges two nodes it has not consumed, at their extended
\* distance, into the next new node
EngineMerge(i, j) ==
    /\ pc = "merge"
    /\ i \in active /\ j \in active /\ i # j
    /\ LET newNode == dist.count + Len(result)
           q       == sqeuclidean_extended(dist, i, j)
           event   == [node1 |-> i, node2 |-> j, dist |-> q.val]
       IN  IF q.threw
           THEN Raise("nan_error")
           ELSE IF ~MergeInside(dist, i, j, newNode)
           THEN /\ pc' = "undefined"
                /\ UNCHANGED <<args, data, out, writes, status, failure, dist,
                               result, emitted, active, nodes, entry, cursor>>
           ELSE /\ result' = Append(result, event)
                /\ emitted' = Append(emitted, event)
                /\ dist' = merge(dist, i, j, newNode)
                /\ active' = (active \ {i, j}) \cup {newNode}
                /\ pc' = IF Len(result) + 1 = dist.count - 1
                         THEN "postprocess" ELSE "merge"
                /\ UNCHANGED <<args, data, out, writes, status, failure,
                               nodes, entry, cursor>>
    /\ UNCHANGED alloc

\* the failures the engine itself can raise
EngineFailures == {"bad_alloc", "std_exception", "other"}

EngineFails(kind) ==
    /\ pc \in {"seed", "merge"}
    /\ Raise(kind)
    /\ UNCHANGED alloc

\* dist.postprocess(result): result.sqrt()
Postprocess ==
    /\ pc = "postprocess"
    /\ result' = [r \in DOMAIN result |-> [result[r] EXCEPT !.dist = FSqrt(@)]]
    /\ pc' = "encode"
    /\ UNCHANGED <<args, data, out, writes, status, failure, dist, emitted,
                   active, nodes, entry, cursor, alloc>>

\* generateSciPyDendrogram up to its loop
EncodeBegin ==
    /\ pc = "encode"
    /\ nodes' = union_find(IF EncoderSorted THEN 0 ELSE dist.count)
    /\ result' = IF EncoderSorted THEN result ELSE StableSort(result)
    /\ entry' = 0
    /\ cursor' = 0
    /\ pc' = "rows"
    /\ UNCHANGED <<args, data, out, writes, status, failure, dist, emitted,
                   active, alloc>>

\* one iteration of the loop of generateSciPyDendrogram
EncodeRow ==
    /\ pc = "rows"
    /\ entry # dist.count - 1
    /\ LET N     == dist.count
           ev    == result[entry + 1]
           node1 == IF EncoderSorted THEN ev.node1 ELSE Find(nodes, ev.node1)
           node2 == IF EncoderSorted THEN ev.node2 ELSE Find(nodes, ev.node2)
       IN  IF ~SideInside(out, node1, N) \/ ~SideInside(out, node2, N)
           THEN /\ pc' = "undefined"
                /\ UNCHANGED <<out, writes, nodes, entry, cursor>>
           ELSE LET size == FAdd(SideSize(out, node1, N), SideSize(out, node2, N))
                    vals == LinkageOutputAppend(node1, node2, ev.dist, size)
                IN  /\ out' = StoreAll(out, cursor, vals)
                    /\ writes' = writes \o <<cursor, cursor + 1, cursor + 2, cursor + 3>>
                    /\ cursor' = cursor + 4
                    /\ entry' = entry + 1
                    /\ nodes' = IF EncoderSorted THEN nodes
                                ELSE Union(nodes, node1, node2)
                    /\ pc' = "rows"
    /\ UNCHANGED <<args, data, status, failure, dist, result, emitted, active, alloc>>

\* the loop ends and the try block returns
EncodeReturn ==
    /\ pc = "rows"
    /\ entry = dist.count - 1
    /\ status' = TryStatus("ok")
    /\ pc' = "done"
    /\ UNCHANGED <<args, data, out, writes, failure, dist, result, emitted,
                   active, nodes, entry, cursor, alloc>>

Next ==
    \/ pc = "idle" /\ \E a \in Calls : \E m \in Inputs(a) : Call(a, m)
    \/ \E wide \in BOOLEAN : Construct(wide)
    \/ ConstructFails
    \/ EngineSeed
    \/ \E i \in active, j \in active : EngineMerge(i, j)
    \/ \E kind \in EngineFailures : EngineFails(kind)
    \/ Postprocess
    \/ EncodeBegin
    \/ EncodeRow
    \/ EncodeReturn

Spec == Init /\ [][Next]_vars

---------------------------------------------------------------------------
(* The CentroidDissimilarity object on its own, driven as the engine drives *)
(* it: merge or merge_weighted of two nodes not yet consumed, into the next  *)
(* new index.                                                               *)

InitObject ==
    \E n \in 0 .. MaxN, d \in 1 .. MaxD, wide \in BOOLEAN :
      \E m \in Matrices(n, d) :
        /\ pc = "object"
        /\ args = [dataNull |-> FALSE, outNull |-> FALSE, pointCount |-> n,
                   dimension |-> d, dendrogramLength |-> 0]
        /\ data = m
        /\ out = <<>>
        /\ writes = <<>>
        /\ status = NoStatus
        /\ failure = "none"
        /\ dist = CentroidDissimilarity(m, n, d, wide)
        /\ result = <<>>
        /\ emitted = <<>>
        /\ active = 0 .. n - 1
        /\ nodes = NoUnionFind
        /\ entry = 0
        /\ cursor = 0
        /\ alloc = [centroid |-> CentroidStorageSize(n, d, wide),
                    members  |-> MembersSize(n, wide)]

\* the bookkeeping of a caller that merges i and j into newNode
Merged(i, j, newNode) ==
    /\ emitted' = Append(emitted, [node1 |-> i, node2 |-> j, dist |-> Fin(0)])
    /\ active' = (active \ {i, j}) \cup {newNode}
    /\ UNCHANGED <<pc, args, data, out, writes, status, failure, result, nodes,
                   entry, cursor, alloc>>

ObjectMerge(i, j) ==
    /\ pc = "object"
    /\ i \in active /\ j \in active /\ i # j
    /\ LET newNode == dist.count + Len(emitted)
       IN  /\ MergeInside(dist, i, j, newNode)
           /\ dist' = merge(dist, i, j, newNode)
           /\ Merged(i, j, newNode)

ObjectMergeWeighted(i, j) ==
    /\ pc = "object"
    /\ i \in active /\ j \in active /\ i # j
    /\ LET newNode == dist.count + Len(emitted)
       IN  /\ MergeInside(dist, i, j, newNode)
           /\ dist' = merge_weighted(dist, i, j, newNode)
           /\ Merged(i, j, newNode)

NextObject ==
    \/ \E i \in active, j \in active : ObjectMerge(i, j)
    \/ \E i \in active, j \in active : ObjectMergeWeighted(i, j)

SpecObject == InitObject /\ [][NextObject]_vars

---------------------------------------------------------------------------
(* The sizes the constructor hands to its two vectors, for every pair of    *)
(* pointCount and dimension.                                                *)

InitSizing ==
    \E n \in 0 .. MAX_INDEX + 1, d \in 0 .. MAX_INDEX + 1 :
        /\ pc = "sizing"
        /\ args = [dataNull |-> FALSE, outNull |-> FALSE, pointCount |-> n,
                   dimension |-> d, dendrogramLength |-> RequiredLength(n)]
        /\ data = <<>>
        /\ out = <<>>
        /\ writes = <<>>
        /\ status = NoStatus
        /\ failure = "none"
        /\ dist = NoDissimilarity
        /\ result = <<>>
        /\ emitted = <<>>
        /\ active = {}
        /\ nodes = NoUnionFind
        /\ entry = 0
        /\ cursor = 0
        /\ alloc = NoAlloc

\* the checks before the try block, then the member initialisers of dist
SizeObject(wide) ==
    /\ pc = "sizing"
    /\ BoundaryStatus(args) = EnterTry
    /\ LET N   == IndexWrap(args.pointCount)
           dim == IndexWrap(args.dimension)
       IN  alloc' = [centroid |-> CentroidStorageSize(N, dim, wide),
                     members  |-> MembersSize(N, wide)]
    /\ pc' = "sized"
    /\ UNCHANGED <<args, data, out, writes, status, failure, dist, result,
                   emitted, active, nodes, entry, cursor>>

NextSizing == \E wide \in BOOLEAN : SizeObject(wide)

SpecSizing == InitSizing /\ [][NextSizing]_vars

---------------------------------------------------------------------------
(* Properties. *)

Returned == pc = "done"

NonNull == ~args.dataNull /\ ~args.outNull

\* the call returned Success from the try block
Succeeded ==
    Returned /\ status = FASTCLUSTER_WRAPPER_SUCCESS /\ args.pointCount >= 2

HasNaN == \E p \in DOMAIN data : data[p].nan

\* element c of row r of dendrogramOut
RowField(r, c) == Load(out, ZIndex(r, c))

\* the shape of a call the checks let through to the pipeline
PipelineShape ==
    /\ pc # "idle"
    /\ NonNull
    /\ args.pointCount >= 2 /\ args.pointCount <= MAX_INDEX
    /\ args.dimension >= 1 /\ args.dimension <= MAX_INDEX

\* C1 as stated: a call of pipeline shape with a long enough buffer and a NaN
\* coordinate in the input returns RuntimeError.
C1_NaNReturnsRuntimeError ==
    (Returned /\ PipelineShape /\ HasNaN
        /\ args.dendrogramLength >= (args.pointCount - 1) * 4)
    => status = FASTCLUSTER_WRAPPER_RUNTIME_ERROR

\* C1 amended: such a call never gets past the seeding of the engine and never
\* returns Success; it returns RuntimeError when the NaN distance is the
\* failure that ends it, and otherwise it was ended earlier by an allocation
\* failure or a failure of the engine.
C1_NaNNeverSucceeds ==
    (PipelineShape /\ HasNaN /\ args.dendrogramLength >= (args.pointCount - 1) * 4)
    => /\ pc \in {"construct", "seed", "done"}
       /\ status # FASTCLUSTER_WRAPPER_SUCCESS
       /\ Returned => failure \in {"nan_error", "bad_alloc", "std_exception", "other"}
       /\ (Returned /\ failure = "nan_error")
             => status = FASTCLUSTER_WRAPPER_RUNTIME_ERROR
       /\ (Returned /\ failure = "bad_alloc")
             => status = FASTCLUSTER_WRAPPER_ALLOCATION_FAILURE

C1_Witness ==
    /\ Returned /\ PipelineShape /\ HasNaN
    /\ args.dendrogramLength >= (args.pointCount - 1) * 4
    /\ args.pointCount = MaxN
    /\ failure = "nan_error"
    /\ status = FASTCLUSTER_WRAPPER_RUNTIME_ERROR

\* the size the encoder must have stored for the side id of row r: 1 for a
\* leaf, else the size field of the earlier row id - N
SideOfRow(id, r) ==
    IF id < args.pointCount THEN 1
    ELSE IF id - args.pointCount < r
         THEN RowField(id - args.pointCount, 3).v
         ELSE 0 - 1

\* C2: after a successful call with N >= 2 the output holds exactly N-1 rows,
\* each with first ID < second ID and a size equal to the sum of the sizes of
\* its two sides (1 for a leaf, else the size field of an earlier row), and
\* the last row's size is N.
C2_RowsWellFormed ==
    Succeeded =>
      /\ Len(writes) = 4 * (args.pointCount - 1)
      /\ \A k \in 4 * (args.pointCount - 1) .. args.dendrogramLength - 1 :
            Load(out, k) = Poison
      /\ \A r \in 0 .. args.pointCount - 2 :
            /\ \A c \in 0 .. 3 : ~RowField(r, c).nan
            /\ RowField(r, 0).v < RowField(r, 1).v
            /\ RowField(r, 0).v >= 0
            /\ RowField(r, 1).v < args.pointCount + r
            /\ SideOfRow(RowField(r, 0).v, r) >= 1
            /\ SideOfRow(RowField(r, 1).v, r) >= 1
            /\ RowField(r, 3).v =
                 SideOfRow(RowField(r, 0).v, r) + SideOfRow(RowField(r, 1).v, r)
      /\ RowField(args.pointCount - 2, 3) = Fin(args.pointCount)

C2_Witness ==
    /\ Succeeded
    /\ args.pointCount = 4
    /\ \E r \in 0 .. 2 :
          /\ RowField(r, 0).v >= 4
          /\ emitted[r + 1].node1 > emitted[r + 1].node2

C4_ZeroDimensionInvalid ==
    (Returned /\ args.dimension = 0)
    => status = FASTCLUSTER_WRAPPER_INVALID_ARGUMENT

\* C5 as stated: with non-null buffers, a call in which pointCount or dimension
\* exceeds MAX_INDEX returns IndexOverflow, whatever the other argument is.
C5_OverflowWhateverTheOther ==
    (Returned /\ NonNull
        /\ (args.pointCount > MAX_INDEX \/ args.dimension > MAX_INDEX))
    => status = FASTCLUSTER_WRAPPER_INDEX_OVERFLOW

\* C5 amended: such a call returns IndexOverflow when pointCount and dimension
\* are both at least 1; with pointCount = 0 it returns Success, and with
\* dimension = 0 and pointCount >= 1 it returns InvalidArgument.
C5_OverflowWhenBothPositive ==
    (pc # "idle" /\ NonNull
        /\ (args.pointCount > MAX_INDEX \/ args.dimension > MAX_INDEX))
    => /\ Returned
       /\ status = IF args.pointCount = 0 THEN FASTCLUSTER_WRAPPER_SUCCESS
                   ELSE IF args.dimension = 0
                        THEN FASTCLUSTER_WRAPPER_INVALID_ARGUMENT
                        ELSE FASTCLUSTER_WRAPPER_INDEX_OVERFLOW

C5_Witness ==
    /\ Returned /\ NonNull
    /\ args.pointCount \in 1 .. MAX_INDEX
    /\ args.dimension = MAX_INDEX + 1
    /\ status = FASTCLUSTER_WRAPPER_INDEX_OVERFLOW

\* C6: a call of pipeline shape whose buffer is shorter than (N-1)*4 returns
\* OutputTooSmall; every element written has an index below dendrogramLength;
\* a successful call with N >= 2 writes the elements 0 .. 4*(N-1)-1, each once
\* and in ascending order.
C6_WritesInsideBuffer ==
    /\ (PipelineShape /\ args.dendrogramLength < (args.pointCount - 1) * 4)
          => (Returned /\ status = FASTCLUSTER_WRAPPER_OUTPUT_TOO_SMALL)
    /\ \A k \in DOMAIN writes : writes[k] >= 0 /\ writes[k] < args.dendrogramLength
    /\ Succeeded => writes = [k \in 1 .. 4 * (args.pointCount - 1) |-> k - 1]

C6_Witness ==
    /\ Succeeded
    /\ args.pointCount = MaxN
    /\ args.dendrogramLength = 4 * (MaxN - 1)
    /\ writes[Len(writes)] = args.dendrogramLength - 1

\* C7 as stated: no failure escapes; every call returns one status of the
\* closed set; an allocation failure gives AllocationFailure, a NaN distance
\* RuntimeError and every other failure UnknownError.
C7_OtherFailuresUnknown ==
    /\ pc # "escaped"
    /\ Returned <=> status # NoStatus
    /\ Returned => status \in StatusCodes
    /\ (Returned /\ failure = "bad_alloc")
          => status = FASTCLUSTER_WRAPPER_ALLOCATION_FAILURE
    /\ (Returned /\ failure = "nan_error")
          => status = FASTCLUSTER_WRAPPER_RUNTIME_ERROR
    /\ (Returned /\ failure \in {"std_exception", "other"})
          => status = FASTCLUSTER_WRAPPER_UNKNOWN_ERROR

\* C7 amended: no failure escapes; every call returns one status of the closed
\* set; an allocation failure gives AllocationFailure, a NaN distance and any
\* other failure derived from std::exception RuntimeError, and every remaining
\* failure UnknownError.
C7_FailuresMapped ==
    /\ pc # "escaped"
    /\ Returned <=> status # NoStatus
    /\ Returned => status \in StatusCodes
    /\ (Returned /\ failure = "bad_alloc")
          => status = FASTCLUSTER_WRAPPER_ALLOCATION_FAILURE
    /\ (Returned /\ failure = "nan_error")
          => status = FASTCLUSTER_WRAPPER_RUNTIME_ERROR
    /\ (Returned /\ failure = "std_exception")
          => status = FASTCLUSTER_WRAPPER_RUNTIME_ERROR
    /\ (Returned /\ failure = "other")
          => status = FASTCLUSTER_WRAPPER_UNKNOWN_ERROR
    /\ (Returned /\ failure = "none")
          => status \in {FASTCLUSTER_WRAPPER_SUCCESS,
                         FASTCLUSTER_WRAPPER_INVALID_ARGUMENT,
                         FASTCLUSTER_WRAPPER_INDEX_OVERFLOW,
                         FASTCLUSTER_WRAPPER_OUTPUT_TOO_SMALL}

C7_Witness ==
    /\ Returned
    /\ failure = "std_exception"
    /\ status = FASTCLUSTER_WRAPPER_RUNTIME_ERROR

\* the number of leaves under a node, from the merges made so far
RECURSIVE LeavesUnder(_)
LeavesUnder(node) ==
    IF node < dist.count THEN 1
    ELSE LeavesUnder(emitted[node - dist.count + 1].node1)
         + LeavesUnder(emitted[node - dist.count + 1].node2)

\* the member counts after construction and any number of merges
MembersCountLeaves ==
    pc = "object" =>
      /\ Len(dist.members) = IF dist.count > 0 THEN 2 * dist.count - 1 ELSE 0
      /\ \A i \in 0 .. dist.count - 1 : Load(dist.members, i) = 1
      /\ \A r \in 1 .. Len(emitted) :
            /\ Load(dist.members, dist.count + r - 1) =
                 Load(dist.members, emitted[r].node1)
                 + Load(dist.members, emitted[r].node2)
            /\ Load(dist.members, dist.count + r - 1) =
                 LeavesUnder(dist.count + r - 1)
      /\ \A n \in dist.count + Len(emitted) .. Len(dist.members) - 1 :
            Load(dist.members, n) = 0
      /\ (dist.count >= 1 /\ Len(emitted) = dist.count - 1)
            => Load(dist.members, 2 * dist.count - 2) = dist.count

\* what one merge into the next new node may change
MergeFrame ==
    pc = "object" =>
      LET newNode == dist.count + Len(emitted)
          slot    == (newNode - dist.count) * dist.dimension
      IN  /\ dist'.data = dist.data
          /\ dist'.count = dist.count /\ dist'.dimension = dist.dimension
          /\ DOMAIN dist'.members = DOMAIN dist.members
          /\ DOMAIN dist'.centroidStorage = DOMAIN dist.centroidStorage
          /\ \A n \in 0 .. Len(dist.members) - 1 :
                /\ n # newNode => Load(dist'.members, n) = Load(dist.members, n)
                /\ Load(dist'.members, n) >= Load(dist.members, n)
          /\ \A k \in 0 .. Len(dist.centroidStorage) - 1 :
                (k < slot \/ k >= slot + dist.dimension)
                  => Load(dist'.centroidStorage, k) = Load(dist.centroidStorage, k)

\* C8: members is 1 for every leaf, the sum of the two parents' counts (the
\* number of leaves in the subtree) for every node created, N for node 2N-2
\* after N-1 merges; a merge changes no members entry but that of the new
\* node and no centroid slot but the new node's, and no count ever decreases.
C8_MemberCounts == []MembersCountLeaves /\ [][MergeFrame]_vars

C8_Witness ==
    /\ pc = "object"
    /\ dist.count = MaxN
    /\ Len(emitted) = MaxN - 1
    /\ Load(dist.members, 2 * MaxN - 2) = MaxN
    /\ \E r \in 1 .. Len(emitted) :
          emitted[r].node1 >= MaxN /\ emitted[r].node2 >= MaxN

\* C9: for every pair that passes the checks, centroidStorage is given exactly
\* (N-1)*D elements and members exactly 2N-1, so that the slot of every
\* internal node N .. 2N-2 lies inside the storage.
C9_SizesExact ==
    pc = "sized" =>
      /\ alloc.centroid = (args.pointCount - 1) * args.dimension
      /\ alloc.members = 2 * args.pointCount - 1
      /\ \A index \in args.pointCount .. 2 * args.pointCount - 2 :
            (index - args.pointCount) * args.dimension + args.dimension
               <= alloc.centroid

\* C10: dendrogramOut is written only once the engine and the square-root
\* pass have completed without failure; a call that returns a status other
\* than Success, and a successful call with N = 0 or N = 1, leaves every
\* element of the buffer as it was.
C10_OutputUntouched ==
    /\ (Returned /\ (status # FASTCLUSTER_WRAPPER_SUCCESS \/ args.pointCount <= 1))
          => /\ writes = <<>>
             /\ out = IF args.outNull THEN <<>>
                      ELSE Filled(args.dendrogramLength, Poison)
    /\ writes # <<>>
          => /\ pc \in {"rows", "done"}
             /\ failure = "none"
             /\ Len(result) = args.pointCount - 1
             /\ \A r \in DOMAIN result : result[r].dist = FSqrt(emitted[r].dist)

C10_Witness ==
    /\ Returned
    /\ status = FASTCLUSTER_WRAPPER_ALLOCATION_FAILURE
    /\ args.dendrogramLength >= 4 * (MaxN - 1)
    /\ out = Filled(args.dendrogramLength, Poison)

=============================================================================
